---- MODULE Spec2Model ----
(***************************************************************************)
(* Verification model of cristhianvs/whatsappbot: the ticket service       *)
(* (direct ticket creation, durable retry queue, background processor)     *)
(* and the classifier service's conversation tracker, consensus of two     *)
(* classifiers, classification gateway and keyword fallback.               *)
(***************************************************************************)
EXTENDS Integers, Sequences, FiniteSets, TLC

(***************************************************************************)
(* Bounds of the model and program constants                               *)
(***************************************************************************)
NumRequests == 1
\* 'max_attempts': 10 written into every queue item by add_ticket
MaxAttempts == 10

Items == 1..NumRequests

\* ticket requests that can be waiting in pending_tickets at the same time
NumQueued == 2
QueueItems == 1..NumQueued

\* every ticket request a behaviour can hold
AllItems == Items \cup QueueItems
Passes == {"background", "manual"}
NoItem == 0
\* a list entry that json.loads rejects
Corrupt == -1

\* Fields of TicketRequest declared with Field(...), i.e. required
RequiredFields ==
    {"subject", "description", "classification", "contact_id",
     "department_id", "reporter_id"}
\* Keyword arguments build_ticket_from_classification passes to TicketRequest
BuiltFields ==
    {"subject", "description", "priority", "contact_id", "classification",
     "department_id"}

VARIABLES
    backendUp,    \* the ticketing backend answers requests
    connected,    \* zoho_client.is_connected() of the service-wide client
    outcome,      \* what the caller of each ticket request got back
    queue,        \* the list pending_tickets; index 1 is the LPUSH end
    attempts,     \* 'attempts' of the serialized queue item
    error,        \* 'error' of the queue item / status record
    status,       \* the record ticket_status:<queue id>
    stored,       \* 'ticket_id' present in the status record
    tickets,      \* tickets the backend created per request (0, 1, many)
    events,       \* number of tickets:created events published per request
    pc,           \* position of each process_queue call
    held,         \* queue_item a process_queue call has popped
    raised,       \* process_error caught by a process_queue call
    tried,        \* per pass: backend attempts made for each item (0, 1, many)
    made,         \* per pass: items whose backend create succeeded in the pass
    sched         \* position of queue_processor_background

qvars == <<backendUp, connected, outcome, queue, attempts, error, status,
           stored, tickets, events, pc, held, raised, tried, made, sched>>

(***************************************************************************)
(* Conversation tracker (classifier service)                               *)
(***************************************************************************)
\* self.INCIDENT_TTL = 7200
INCIDENT_TTL == 7200
\* the clock advances in steps of TimeStep seconds up to MaxTime
TimeStep == 1800
MaxTime == 10800
NumTasks == 2
MaxTickets == 2
MaxMessages == 3

Tasks == 1..NumTasks
TicketIds == 1..MaxTickets
None == 0
Groups == {"g1"}
NoGroup == "no_group"
Users == {"u1"}

VARIABLES
    now,          \* datetime.now(), in seconds
    store,        \* redis keys incident:active:<group_id>:<ticket_id>
    nextTicket,   \* next ticket id the backend hands out
    nextMsg,      \* id of the next inbound message
    tpc,          \* position of each message-handling task
    tmsg,         \* the message a task handles
    tticket,      \* ticket id a task found or created
    tloaded       \* incident add_message_to_thread has read

tvars == <<now, store, nextTicket, nextMsg, tpc, tmsg, tticket, tloaded>>

(***************************************************************************)
(* Consensus of the two classifiers (classifier-service/testing)           *)
(***************************************************************************)
\* confidences are counted in ten-thousandths: 9350 is 0.935
One == 10000
\* round(x, 3) keeps thousandths
Milli == One \div 1000
\* the confidences the classifiers report: a grid with ConfGrid intervals
\* and some values off the grid
ConfGrid == 4
Confs == {(One * k) \div ConfGrid : k \in 0..ConfGrid} \cup {8000, 8550, 8567, 9000}
Categories == {"tecnico", "operativo"}
Priorities == {"alta", "baja"}

VARIABLES
    claude_result,    \* resultado_claude
    openai_result,    \* resultado_openai
    resultado_final,  \* what consensus returned
    cimpl             \* the script whose VotingSystem ran

cvars == <<claude_result, openai_result, resultado_final, cimpl>>

(***************************************************************************)
(* Classification gateway and keyword fallback (classifier-service/app)    *)
(***************************************************************************)
\* a message text is a sequence of at most MaxPhrases phrases
MaxPhrases == 2

VARIABLES
    gtext,        \* text given to MessageClassifier.classify
    gpc,          \* position inside classify / classify_message
    gcalls,       \* providers _call_model was called with, in order
    gprimary,     \* what _call_model did for the primary model
    gsecondary,   \* what _call_model did for the fallback model
    gret,         \* dict classify_message returned
    gresult,      \* what classify returned
    published     \* publish_message calls of handle_whatsapp_message

gvars ==
    <<gtext, gpc, gcalls, gprimary, gsecondary, gret, gresult, published>>

vars == <<qvars, tvars, cvars, gvars>>

\* what the actions of one component leave alone
qrest == <<tvars, cvars, gvars>>
trest == <<qvars, cvars, gvars>>
crest == <<qvars, tvars, gvars>>
grest == <<qvars, tvars, cvars>>

(***************************************************************************)
(* Helpers                                                                 *)
(***************************************************************************)
InQueue(i) == \E k \in 1..Len(queue) : queue[k] = i

\* an LPUSH that adds the element twice
lpush_twice(q, i) == <<i, i>> \o q

\* redis LPUSH: the new element becomes the head of the list
lpush(q, i) == <<i>> \o q

\* queue_id = f"queue_{uuid.uuid4().hex[:8]}": one random id per call
queue_id(r) == <<"queue_", r>>

\* RedisClient.set_cache of the ticket service on the key
\* ticket_status:<queue id>: the record is kept until it is written again
set_cache(st, i, v) == [st EXCEPT ![i] = v]

\* a pop that returns the head of the list
lpop_item(q) == q[1]

\* redis RPOP: removes and returns the tail of the list
rpop_item(q) == q[Len(q)]
\* a pop that reads the tail and leaves it in the list
rpop_rest_kept(q) == q

rpop_rest(q) == SubSeq(q, 1, Len(q) - 1)

NoTries == [i \in AllItems |-> 0]

\* observation counters distinguish 0, 1 and "more than one"
Bump(n) == IF n < 2 THEN n + 1 ELSE 2

(***************************************************************************)
(* Initial state: service started by lifespan with redis available         *)
(***************************************************************************)
QInit ==
    /\ backendUp \in BOOLEAN
    /\ connected = backendUp
    /\ outcome = [i \in AllItems |-> "new"]
    /\ queue = <<>>
    /\ attempts = [i \in AllItems |-> 0]
    /\ error = [i \in AllItems |-> "none"]
    /\ status = [i \in AllItems |-> "not_found"]
    /\ stored = [i \in AllItems |-> FALSE]
    /\ tickets = [i \in AllItems |-> 0]
    /\ events = [i \in AllItems |-> 0]
    /\ pc = [p \in Passes |-> "idle"]
    /\ held = [p \in Passes |-> NoItem]
    /\ raised = [p \in Passes |-> "none"]
    /\ tried = [p \in Passes |-> NoTries]
    /\ made = [p \in Passes |-> {}]
    /\ sched = "sleep"

(***************************************************************************)
(* Environment: the backend goes down and comes back                       *)
(***************************************************************************)
BackendFails ==
    /\ backendUp
    /\ backendUp' = FALSE
    /\ UNCHANGED <<connected, outcome, queue, attempts, error, status, stored,
                   tickets, events, pc, held, raised, tried, made, sched>>
    /\ UNCHANGED qrest

BackendRecovers ==
    /\ ~backendUp
    /\ backendUp' = TRUE
    /\ UNCHANGED <<connected, outcome, queue, attempts, error, status, stored,
                   tickets, events, pc, held, raised, tried, made, sched>>
    /\ UNCHANGED qrest

(***************************************************************************)
(* TicketQueue.add_ticket: LPUSH the item, then write the status record.   *)
(* pushOk = FALSE is the redis failure that add_ticket re-raises.          *)
(***************************************************************************)
add_ticket(r, pushOk, okOutcome, errOutcome) ==
    IF pushOk
    THEN /\ queue' = lpush(queue, r)
         /\ attempts' = [attempts EXCEPT ![r] = 0]
         /\ error' = [error EXCEPT ![r] = "none"]
         /\ status' = set_cache(status, r, "queued")
         /\ outcome' = [outcome EXCEPT ![r] = okOutcome]
    ELSE /\ outcome' = [outcome EXCEPT ![r] = errOutcome]
         /\ UNCHANGED <<queue, attempts, error, status>>

(***************************************************************************)
(* POST /tickets (create_ticket): synchronous attempt, enqueue on failure  *)
(***************************************************************************)
create_ticket(r) ==
    /\ sched # "cancelled"
    /\ outcome[r] = "new"
    /\ IF backendUp
       THEN /\ tickets' = [tickets EXCEPT ![r] = Bump(@)]
            /\ events' = [events EXCEPT ![r] = Bump(@)]
            /\ outcome' = [outcome EXCEPT ![r] = "created"]
            /\ UNCHANGED <<queue, attempts, error, status>>
       ELSE /\ \E pushOk \in BOOLEAN : add_ticket(r, pushOk, "queued", "http_500")
            /\ UNCHANGED <<tickets, events>>
    /\ UNCHANGED <<backendUp, connected, stored, pc, held, raised, tried, made, sched>>
    /\ UNCHANGED qrest

(***************************************************************************)
(* build_ticket_from_classification: contact and department lookups, then  *)
(* the TicketRequest constructor; any exception makes it return None.      *)
(***************************************************************************)
TicketRequestValid(fields) == RequiredFields \subseteq fields

build_ticket_from_classification(lookupsOk) ==
    lookupsOk /\ TicketRequestValid(BuiltFields)

(***************************************************************************)
(* handle_classification_result for an event with is_support_incident      *)
(* true: build the request, create the ticket, enqueue when that fails.    *)
(***************************************************************************)
handle_classification_result(r) ==
    /\ sched # "cancelled"
    /\ outcome[r] = "new"
    /\ IF build_ticket_from_classification(backendUp)
       THEN \* create_ticket_from_classification
            IF backendUp
            THEN /\ tickets' = [tickets EXCEPT ![r] = Bump(@)]
                 /\ events' = [events EXCEPT ![r] = Bump(@)]
                 /\ outcome' = [outcome EXCEPT ![r] = "created"]
                 /\ UNCHANGED <<queue, attempts, error, status>>
            ELSE /\ \E pushOk \in BOOLEAN :
                        add_ticket(r, pushOk, "queued", "dropped")
                 /\ UNCHANGED <<tickets, events>>
       ELSE /\ outcome' = [outcome EXCEPT ![r] = "dropped"]
            /\ UNCHANGED <<queue, attempts, error, status, tickets, events>>
    /\ UNCHANGED <<backendUp, connected, stored, pc, held, raised, tried, made, sched>>
    /\ UNCHANGED qrest

(***************************************************************************)
(* TicketQueue.process_queue, one step per awaited call.                   *)
(* pc: idle -> pop -> create -> created | except -> pop ... -> idle        *)
(***************************************************************************)
\* POST /queue/process starts a pass whatever the other pass is doing
process_queue_endpoint ==
    /\ sched # "cancelled"
    /\ pc["manual"] = "idle"
    /\ pc' = [pc EXCEPT !["manual"] = "pop"]
    /\ UNCHANGED <<backendUp, connected, outcome, queue, attempts, error,
                   status, stored, tickets, events, held, raised, tried, made,
                   sched>>
    /\ UNCHANGED qrest

\* queue_processor_background: after the 30 s sleep, a pass if the client
\* is connected
queue_processor_background ==
    /\ sched = "sleep"
    /\ connected
    /\ pc["background"] = "idle"
    /\ sched' = "pass"
    /\ pc' = [pc EXCEPT !["background"] = "pop"]
    /\ UNCHANGED <<backendUp, connected, outcome, queue, attempts, error,
                   status, stored, tickets, events, held, raised, tried, made>>
    /\ UNCHANGED qrest

\* the pass returns or raises: the scheduler goes back to sleep or backs off
PassEnds(p, how) ==
    IF p = "background"
    THEN sched' = (IF how = "raise" THEN "backoff" ELSE "sleep")
    ELSE UNCHANGED sched

\* rpop; an empty list ends the pass; json.loads of an entry that is no
\* JSON raises outside the inner try, so process_queue logs and re-raises
Pop(p) ==
    /\ pc[p] = "pop"
    /\ IF queue = <<>>
       THEN /\ pc' = [pc EXCEPT ![p] = "idle"]
            /\ PassEnds(p, "return")
            /\ tried' = [tried EXCEPT ![p] = NoTries]
            /\ made' = [made EXCEPT ![p] = {}]
            /\ UNCHANGED <<queue, held>>
       ELSE IF rpop_item(queue) = Corrupt
       THEN /\ queue' = rpop_rest(queue)
            /\ pc' = [pc EXCEPT ![p] = "idle"]
            /\ PassEnds(p, "raise")
            /\ tried' = [tried EXCEPT ![p] = NoTries]
            /\ made' = [made EXCEPT ![p] = {}]
            /\ UNCHANGED held
       ELSE /\ held' = [held EXCEPT ![p] = rpop_item(queue)]
            /\ queue' = rpop_rest(queue)
            /\ pc' = [pc EXCEPT ![p] = "create"]
            /\ UNCHANGED <<sched, tried, made>>
    /\ UNCHANGED <<backendUp, connected, outcome, attempts, error, status,
                   stored, tickets, events, raised>>
    /\ UNCHANGED qrest

\* ZohoClient().initialize() and create_ticket for the popped item
Create(p) ==
    /\ pc[p] = "create"
    /\ tried' = [tried EXCEPT ![p][held[p]] = Bump(@)]
    /\ IF backendUp
       THEN /\ tickets' = [tickets EXCEPT ![held[p]] = Bump(@)]
            /\ made' = [made EXCEPT ![p] = @ \cup {held[p]}]
            /\ pc' = [pc EXCEPT ![p] = "created"]
            /\ UNCHANGED raised
       ELSE /\ raised' = [raised EXCEPT ![p] = "backend"]
            /\ pc' = [pc EXCEPT ![p] = "except"]
            /\ UNCHANGED <<tickets, made>>
    /\ UNCHANGED <<backendUp, connected, outcome, queue, attempts, error,
                   status, stored, events, held, sched>>
    /\ UNCHANGED qrest

\* set_cache(status completed, ticket_id), then the tickets:created event;
\* a publish that raises lands in the except branch of the same try
Complete(p) ==
    /\ pc[p] = "created"
    /\ status' = set_cache(status, held[p], "completed")
    /\ stored' = [stored EXCEPT ![held[p]] = TRUE]
    /\ \E pubOk \in BOOLEAN :
          IF pubOk
          THEN /\ events' = [events EXCEPT ![held[p]] = Bump(@)]
               /\ held' = [held EXCEPT ![p] = NoItem]
               /\ pc' = [pc EXCEPT ![p] = "pop"]
               /\ UNCHANGED raised
          ELSE /\ raised' = [raised EXCEPT ![p] = "publish"]
               /\ pc' = [pc EXCEPT ![p] = "except"]
               /\ UNCHANGED <<events, held>>
    /\ UNCHANGED <<backendUp, connected, outcome, queue, attempts, error,
                   tickets, tried, made, sched>>
    /\ UNCHANGED qrest

\* a failed attempt that is not counted
count_attempt_not(n) == n

\* queue_item['attempts'] += 1
count_attempt(n) == n + 1

ShouldRequeue_inclusive(n, max) == n <= max

\* if queue_item['attempts'] < queue_item['max_attempts']
ShouldRequeue(n, max) == n < max

\* except Exception as process_error: count the attempt, requeue or fail.
\* pushOk = FALSE is an lpush that raises: the outer handler re-raises.
HandleFailure(p) ==
    /\ pc[p] = "except"
    /\ LET i == held[p]
           n == count_attempt(attempts[i])
       IN IF ShouldRequeue(n, MaxAttempts)
          THEN \E pushOk \in BOOLEAN :
                 IF pushOk
                 THEN /\ queue' = lpush(queue, i)
                      /\ attempts' = [attempts EXCEPT ![i] = n]
                      /\ error' = [error EXCEPT ![i] = raised[p]]
                      /\ status' = set_cache(status, i, "retrying")
                      /\ stored' = [stored EXCEPT ![i] = FALSE]
                      /\ pc' = [pc EXCEPT ![p] = "pop"]
                      /\ UNCHANGED sched
                      /\ UNCHANGED <<tried, made>>
                 ELSE /\ pc' = [pc EXCEPT ![p] = "idle"]
                      /\ PassEnds(p, "raise")
                      /\ tried' = [tried EXCEPT ![p] = NoTries]
                      /\ made' = [made EXCEPT ![p] = {}]
                      /\ UNCHANGED <<queue, attempts, error, status, stored>>
          ELSE /\ attempts' = [attempts EXCEPT ![i] = n]
               /\ error' = [error EXCEPT ![i] = raised[p]]
               /\ status' = set_cache(status, i, "failed")
               /\ stored' = [stored EXCEPT ![i] = FALSE]
               /\ pc' = [pc EXCEPT ![p] = "pop"]
               /\ UNCHANGED <<queue, sched, tried, made>>
    /\ held' = [held EXCEPT ![p] = NoItem]
    /\ raised' = [raised EXCEPT ![p] = "none"]
    /\ UNCHANGED <<backendUp, connected, outcome, tickets, events>>
    /\ UNCHANGED qrest

\* queue_processor_background sleeps 60 s after an error, then loops
BackoffElapsed ==
    /\ sched = "backoff"
    /\ sched' = "sleep"
    /\ UNCHANGED <<backendUp, connected, outcome, queue, attempts, error,
                   status, stored, tickets, events, pc, held, raised, tried, made>>
    /\ UNCHANGED qrest

\* lifespan shutdown: queue_processor_task.cancel() ends the background
\* pass at whatever await it is in
Shutdown ==
    /\ sched # "cancelled"
    /\ pc["manual"] = "idle"
    /\ sched' = "cancelled"
    /\ pc' = [pc EXCEPT !["background"] = "idle"]
    /\ held' = [held EXCEPT !["background"] = NoItem]
    /\ raised' = [raised EXCEPT !["background"] = "none"]
    /\ tried' = [tried EXCEPT !["background"] = NoTries]
    /\ made' = [made EXCEPT !["background"] = {}]
    /\ UNCHANGED <<backendUp, connected, outcome, queue, attempts, error,
                   status, stored, tickets, events>>
    /\ UNCHANGED qrest

\* lifespan startup of the next process: initialize the client, start the
\* processor; the redis list and status records are still there
Restart ==
    /\ sched = "cancelled"
    /\ sched' = "sleep"
    /\ connected' = backendUp
    /\ UNCHANGED <<backendUp, outcome, queue, attempts, error, status, stored,
                   tickets, events, pc, held, raised, tried, made>>
    /\ UNCHANGED qrest

\* something other than add_ticket pushed an entry that is no serialized
\* queue item onto pending_tickets
CorruptEntry ==
    /\ ~InQueue(Corrupt)
    /\ queue' = lpush(queue, Corrupt)
    /\ UNCHANGED <<backendUp, connected, outcome, attempts, error, status,
                   stored, tickets, events, pc, held, raised, tried, made,
                   sched>>
    /\ UNCHANGED qrest

\* one step of a process_queue call
process_queue(p) ==
    \/ Pop(p)
    \/ Create(p)
    \/ Complete(p)
    \/ HandleFailure(p)

(***************************************************************************)
(* Conversation tracker: messages, quoted text and the incident store      *)
(***************************************************************************)
ContextKeys == Groups \cup Users
Keys == ContextKeys \X TicketIds

\* bot_phone_number
bot_number == "5215530482752"
BotJid == <<bot_number, "@s.whatsapp.net">>
UserJid == <<"5215512345678", "@s.whatsapp.net">>
\* another account whose number has the bot's number as its tail
OtherJid == <<"1", bot_number, "@s.whatsapp.net">>

\* A text is a sequence of tokens separated by single spaces
Word(w) == [kind |-> "word", w |-> w, n |-> 0]
HashNum(k) == [kind |-> "hashnum", w |-> "", n |-> k]
Num(k) == [kind |-> "num", w |-> "", n |-> k]

NoQuote == [participant |-> <<>>, text |-> <<>>]
\* the confirmation the bot sends for ticket k
TicketText(k) == <<Word("Ticket"), HashNum(k), Word("creado")>>

\* what an inbound message can quote: nothing, a confirmation the bot has
\* sent (tickets below `issued`), or the same text sent by another account
InboundQuotes(issued) ==
    {NoQuote}
    \cup {[participant |-> BotJid, text |-> TicketText(k)] :
             k \in {j \in TicketIds : j < issued}}
    \cup {[participant |-> p, text |-> TicketText(1)] : p \in {UserJid, OtherJid}}

\* the message slot of a task that is not handling a message
NoMessage ==
    [id |-> None, group_id |-> NoGroup, from_user |-> "u1", quoted |-> NoQuote]

Absent ==
    [ticket_id |-> None, group_id |-> "", timestamp |-> 0, last_update |-> 0,
     thread |-> <<>>, expires |-> 0]

\* group_id = message.get('group_id') or message.get('from_user')
ContextOf(m) == IF m.group_id # NoGroup THEN m.group_id ELSE m.from_user

SetMin(S) == CHOOSE x \in S : \A y \in S : x <= y

\* `bot_number in quoted_participant`
Contains(seq, tok) == \E k \in 1..Len(seq) : seq[k] = tok

\* the list `patterns` of _extract_ticket_from_quoted, in order
patterns ==
    << [w |-> "Ticket", kind |-> "hashnum"],
       [w |-> "Ticket", kind |-> "num"],
       [w |-> "ticket", kind |-> "hashnum"],
       [w |-> "ticket", kind |-> "num"],
       [w |-> "", kind |-> "hashnum"] >>

\* re.search(pattern, text).group(1): the leftmost match, None without one
re_search(pat, text) ==
    LET hits == IF pat.w = ""
                THEN {k \in 1..Len(text) : text[k].kind = pat.kind}
                ELSE {k \in 1..Len(text) :
                        /\ k < Len(text)
                        /\ text[k] = Word(pat.w)
                        /\ text[k + 1].kind = pat.kind}
    IN IF hits = {} THEN None
       ELSE IF pat.w = "" THEN text[SetMin(hits)].n
       ELSE text[SetMin(hits) + 1].n

\* is_ticket_active demanding more than one matching key
is_ticket_active_many(st, id) ==
    /\ id \in TicketIds
    /\ Cardinality({c \in ContextKeys : st[<<c, id>>] # Absent}) > 1

\* is_ticket_active: any key incident:active:*:<ticket_id>
is_ticket_active(st, id) ==
    /\ id \in TicketIds
    /\ \E c \in ContextKeys : st[<<c, id>>] # Absent

\* _extract_ticket_from_quoted
extract_ticket_from_quoted(st, m) ==
    IF m.quoted = NoQuote THEN None
    ELSE IF ~Contains(m.quoted.participant, bot_number) THEN None
    ELSE LET active == {k \in 1..Len(patterns) :
                          is_ticket_active(st, re_search(patterns[k], m.quoted.text))}
         IN IF active = {} THEN None
            ELSE re_search(patterns[SetMin(active)], m.quoted.text)

\* the window test with the boundary included
WithinWindow_inclusive(t, ts) == t - ts <= INCIDENT_TTL

\* time_diff < timedelta(seconds=self.INCIDENT_TTL)
WithinWindow(t, ts) == t - ts < INCIDENT_TTL

\* _find_recent_incident: the possible results (the scan order decides
\* between incidents with equal timestamps)
find_recent_incident(st, t, m) ==
    LET found == {id \in TicketIds : st[<<ContextOf(m), id>>] # Absent}
        recent == {id \in found :
                     \A o \in found : st[<<ContextOf(m), o>>].timestamp
                                        <= st[<<ContextOf(m), id>>].timestamp}
    IN IF found = {} THEN {None}
       ELSE {IF WithinWindow(t, st[<<ContextOf(m), id>>].timestamp)
             THEN id ELSE None : id \in recent}

\* check_existing_incident with the two methods in the opposite order
check_existing_incident_window_first(st, t, m) ==
    IF find_recent_incident(st, t, m) # {None}
    THEN find_recent_incident(st, t, m)
    ELSE {extract_ticket_from_quoted(st, m)}

\* check_existing_incident: quoted reply first, then the recent incident
check_existing_incident(st, t, m) ==
    IF extract_ticket_from_quoted(st, m) # None
    THEN {extract_ticket_from_quoted(st, m)}
    ELSE find_recent_incident(st, t, m)

TInit ==
    /\ now = 0
    /\ store = [k \in Keys |-> Absent]
    /\ nextTicket = 1
    /\ nextMsg = 1
    /\ tpc = [t \in Tasks |-> "idle"]
    /\ tmsg = [t \in Tasks |-> NoMessage]
    /\ tticket = [t \in Tasks |-> None]
    /\ tloaded = [t \in Tasks |-> Absent]

\* the clock advances; redis drops the keys whose TTL has run out
Tick ==
    /\ now + TimeStep <= MaxTime
    /\ now' = now + TimeStep
    /\ store' = [k \in Keys |->
                   IF store[k] # Absent /\ store[k].expires <= now'
                   THEN Absent ELSE store[k]]
    /\ UNCHANGED <<nextTicket, nextMsg, tpc, tmsg, tticket, tloaded>>
    /\ UNCHANGED trest

\* inbound messages classified as incidents; ids follow the arrival order
Inbound(n) ==
    {[id |-> n, group_id |-> g, from_user |-> u, quoted |-> q] :
        g \in Groups \cup {NoGroup}, u \in Users,
        q \in InboundQuotes(nextTicket)}

\* a task that has returned from the tracker can take the next message
Free(t) == tpc[t] \in {"idle", "done", "not_added"}

\* a free task takes the next inbound message
Arrive(t, m) ==
    /\ Free(t)
    /\ \A s \in Tasks : s < t => ~Free(s)
    /\ nextMsg <= MaxMessages
    /\ m \in Inbound(nextMsg)
    /\ nextMsg' = nextMsg + 1
    /\ tmsg' = [tmsg EXCEPT ![t] = m]

\* the task asks the tracker whether its message continues an incident
CheckExisting(t) ==
    /\ \E m \in Inbound(nextMsg) :
          /\ Arrive(t, m)
          /\ \E res \in check_existing_incident(store, now, m) :
                /\ tticket' = [tticket EXCEPT ![t] = res]
                /\ tpc' = [tpc EXCEPT ![t] =
                             IF res = None THEN "create" ELSE "append"]
    /\ UNCHANGED <<now, store, nextTicket, tloaded>>
    /\ UNCHANGED trest

\* capitalizations of the word in a quoted system message
TicketWords == {"Ticket", "ticket", "TICKET"}

\* texts a quoted system message can carry about tickets j and k: one
\* mention in each form, a bare "#k", and two mentions in different forms
QuotedTexts ==
    {<<Word(w), HashNum(k), Word("creado")>> : w \in TicketWords, k \in TicketIds}
    \cup {<<Word(w), Num(k), Word("creado")>> : w \in TicketWords, k \in TicketIds}
    \cup {<<Word("Ver"), HashNum(k), Word("para")>> : k \in TicketIds}
    \cup {<<Word("ticket"), HashNum(j), Word("Ticket"), Num(k)>> :
             j \in TicketIds, k \in TicketIds}
    \cup {<<Word("Ver"), HashNum(j), Word("Ticket"), Num(k)>> :
             j \in TicketIds, k \in TicketIds}

\* inbound messages that quote a message of the bot with any of these texts
InboundQuoting(n) ==
    {[id |-> n, group_id |-> g, from_user |-> u,
      quoted |-> [participant |-> BotJid, text |-> x]] :
        g \in Groups \cup {NoGroup}, u \in Users, x \in QuotedTexts}

\* check_existing_incident for a reply to a system message
CheckExistingQuoted(t) ==
    /\ \E m \in InboundQuoting(nextMsg) :
          /\ Free(t)
          /\ \A s \in Tasks : s < t => ~Free(s)
          /\ nextMsg <= MaxMessages
          /\ nextMsg' = nextMsg + 1
          /\ tmsg' = [tmsg EXCEPT ![t] = m]
          /\ \E res \in check_existing_incident(store, now, m) :
                /\ tticket' = [tticket EXCEPT ![t] = res]
                /\ tpc' = [tpc EXCEPT ![t] =
                             IF res = None THEN "create" ELSE "append"]
    /\ UNCHANGED <<now, store, nextTicket, tloaded>>
    /\ UNCHANGED trest

\* the tracker call returns (True: "done", False: "not_added") and the task
\* is through with its message
Finished(t, ret) ==
    /\ tpc' = [tpc EXCEPT ![t] = ret]
    /\ tmsg' = [tmsg EXCEPT ![t] = NoMessage]
    /\ tticket' = [tticket EXCEPT ![t] = None]

\* no incident found: the backend creates a ticket with a new id
CreateTicket(t) ==
    /\ tpc[t] = "create"
    /\ nextTicket <= MaxTickets
    /\ tticket' = [tticket EXCEPT ![t] = nextTicket]
    /\ nextTicket' = nextTicket + 1
    /\ tpc' = [tpc EXCEPT ![t] = "register"]
    /\ UNCHANGED <<now, store, nextMsg, tmsg, tloaded>>
    /\ UNCHANGED trest

\* the record register_incident writes under incident:active:<group>:<id>
incident_data(m, id, t) ==
    [ticket_id |-> id, group_id |-> ContextOf(m), timestamp |-> t,
     last_update |-> t, thread |-> <<m.id>>, expires |-> t + INCIDENT_TTL]

\* register_incident: set_cache(key, incident_data, ttl=INCIDENT_TTL)
register_incident(t) ==
    /\ tpc[t] = "register"
    /\ store' = [store EXCEPT ![<<ContextOf(tmsg[t]), tticket[t]>>] =
                   incident_data(tmsg[t], tticket[t], now)]
    /\ Finished(t, "done")
    /\ UNCHANGED <<now, nextTicket, nextMsg, tloaded>>
    /\ UNCHANGED trest

\* add_message_to_thread, first half: scan for the key and read the incident
add_message_to_thread_load(t) ==
    /\ tpc[t] = "append"
    /\ LET keys == {k \in Keys : k[2] = tticket[t] /\ store[k] # Absent}
       IN IF keys = {}
          THEN /\ Finished(t, "not_added")
               /\ UNCHANGED tloaded
          ELSE \E k \in keys :
                  /\ tloaded' = [tloaded EXCEPT ![t] = store[k]]
                  /\ tpc' = [tpc EXCEPT ![t] = "append_store"]
                  /\ UNCHANGED <<tmsg, tticket>>
    /\ UNCHANGED <<now, store, nextTicket, nextMsg>>
    /\ UNCHANGED trest

\* the append written back without renewing the TTL
appended_no_ttl(inc, mid, t) ==
    [inc EXCEPT !.thread = Append(@, mid), !.last_update = t]

\* the incident after thread_messages.append and the last_update refresh
appended(inc, mid, t) ==
    [inc EXCEPT !.thread = Append(@, mid), !.last_update = t,
                !.expires = t + INCIDENT_TTL]

\* add_message_to_thread, second half: set_cache with the TTL renewed
add_message_to_thread_store(t) ==
    /\ tpc[t] = "append_store"
    /\ store' = [store EXCEPT ![<<tloaded[t].group_id, tloaded[t].ticket_id>>] =
                   appended(tloaded[t], tmsg[t].id, now)]
    /\ tloaded' = [tloaded EXCEPT ![t] = Absent]
    /\ Finished(t, "done")
    /\ UNCHANGED <<now, nextTicket, nextMsg>>
    /\ UNCHANGED trest

(***************************************************************************)
(* VotingSystem.consensus                                                  *)
(***************************************************************************)
\* what a classifier returns when the call or the JSON parsing failed
ErrorResult ==
    [es_incidencia |-> "None", confianza |-> 0, categoria |-> "None",
     prioridad |-> "None", metadata |-> "{}"]

\* the results of one classifier; meta stands for its 'metadata' dict
Results(meta) ==
    {ErrorResult}
    \cup [es_incidencia : {"True", "False"}, confianza : Confs,
          categoria : Categories, prioridad : Priorities, metadata : {meta}]

\* round(n / d, 3) for the value n / d ten-thousandths: the nearest
\* thousandth; when n / d lies halfway the binary value of the float decides
\* which
round3(n, d) ==
    LET q == d * Milli
        lower == (n \div q) * Milli
    IN IF 2 * (n % q) < q THEN {lower}
       ELSE IF 2 * (n % q) > q THEN {lower + Milli}
       ELSE {lower, lower + Milli}

Max(a, b) == IF a >= b THEN a ELSE b

\* the per-model part of _generar_comparacion
Raw(r) ==
    [es_incidencia |-> r.es_incidencia, confianza |-> r.confianza,
     categoria |-> r.categoria, prioridad |-> r.prioridad]

\* _generar_comparacion
generar_comparacion(c, o) ==
    [present |-> TRUE, claude |-> Raw(c), openai |-> Raw(o)]

\* run_test_standalone.py returns no 'comparacion'
NoComparacion ==
    [present |-> FALSE, claude |-> Raw(ErrorResult), openai |-> Raw(ErrorResult)]

\* the dict a case returns; `de` is the result whose categoria, prioridad and
\* metadata are copied
Final(es, conf, de, tipo, revision, primario, cmp) ==
    [es_incidencia |-> es, confianza |-> conf, categoria |-> de.categoria,
     prioridad |-> de.prioridad, metadata |-> de.metadata, tipo |-> tipo,
     requiere_revision |-> revision, modelo_primario |-> primario,
     comparacion |-> cmp]

\* (claude_conf + openai_conf) / 2 * 1.1 without the cap of 1.0
confianza_ambos_si_uncapped(c, o) ==
    round3((c.confianza + o.confianza) * 11, 20)

\* round(min(confianza_promedio * 1.1, 1.0), 3)
confianza_ambos_si(c, o) ==
    IF (c.confianza + o.confianza) * 11 >= One * 20 THEN {One}
    ELSE round3((c.confianza + o.confianza) * 11, 20)

\* the model _caso_ambos_si takes as primary, with ties going to openai
primario_ambos_si_strict(c, o) ==
    IF c.confianza > o.confianza THEN "claude" ELSE "openai"

\* if claude_conf >= openai_conf: claude, else: openai
primario_ambos_si(c, o) ==
    IF c.confianza >= o.confianza THEN "claude" ELSE "openai"

\* _caso_ambos_si
caso_ambos_si(c, o, cmp) ==
    {Final("True", v, IF primario_ambos_si(c, o) = "claude" THEN c ELSE o,
           "ambos_si", FALSE, primario_ambos_si(c, o), cmp) :
        v \in confianza_ambos_si(c, o)}

\* max(claude_conf, openai_conf) replaced by the smaller of the two
confianza_ambos_no_min(c, o) ==
    round3(IF c.confianza <= o.confianza THEN c.confianza ELSE o.confianza, 1)

\* round(max(claude_conf, openai_conf), 3)
confianza_ambos_no(c, o) == round3(Max(c.confianza, o.confianza), 1)

\* _caso_ambos_no
caso_ambos_no(c, o, cmp) ==
    {Final("False", v, ErrorResult, "ambos_no", FALSE, "consensus", cmp) :
        v \in confianza_ambos_no(c, o)}

\* the model _caso_discrepancia takes as primary, but the less confident one
primario_discrepancia_lower(c, o) ==
    IF c.confianza < o.confianza THEN "claude" ELSE "openai"

\* if claude_conf > openai_conf: claude, else: openai
primario_discrepancia(c, o) ==
    IF c.confianza > o.confianza THEN "claude" ELSE "openai"

\* _caso_discrepancia
caso_discrepancia(c, o, cmp) ==
    LET p == IF primario_discrepancia(c, o) = "claude" THEN c ELSE o
    IN {Final(p.es_incidencia, v, p, "discrepancia", TRUE,
              primario_discrepancia(c, o), cmp) :
           v \in round3(p.confianza * 17, 20)}

\* _caso_error
caso_error(c, o, cmp) ==
    IF c.es_incidencia = "None" /\ o.es_incidencia = "None"
    THEN {Final("None", 0, ErrorResult, "error_ambos", TRUE, "None", cmp)}
    ELSE LET p == IF c.es_incidencia # "None" THEN c ELSE o
         IN {Final(p.es_incidencia, v, p, "error_parcial", TRUE,
                   IF c.es_incidencia # "None" THEN "claude" ELSE "openai",
                   cmp) :
                v \in round3(p.confianza * 3, 4)}

\* VotingSystem.consensus of voting_system.py
consensus(c, o) ==
    IF c.es_incidencia = "True" /\ o.es_incidencia = "True"
    THEN caso_ambos_si(c, o, generar_comparacion(c, o))
    ELSE IF c.es_incidencia = "False" /\ o.es_incidencia = "False"
    THEN caso_ambos_no(c, o, generar_comparacion(c, o))
    ELSE IF /\ c.es_incidencia # "None"
            /\ o.es_incidencia # "None"
            /\ c.es_incidencia # o.es_incidencia
    THEN caso_discrepancia(c, o, generar_comparacion(c, o))
    ELSE caso_error(c, o, generar_comparacion(c, o))

\* VotingSystem.consensus of run_test_standalone.py: the same three cases
\* written inline, then one 'error' result for everything else
consensus_standalone(c, o) ==
    IF c.es_incidencia = "True" /\ o.es_incidencia = "True"
    THEN {[r EXCEPT !.modelo_primario = "absent"] :
             r \in caso_ambos_si(c, o, NoComparacion)}
    ELSE IF c.es_incidencia = "False" /\ o.es_incidencia = "False"
    THEN {[r EXCEPT !.modelo_primario = "absent"] :
             r \in caso_ambos_no(c, o, NoComparacion)}
    ELSE IF /\ c.es_incidencia # "None"
            /\ o.es_incidencia # "None"
            /\ c.es_incidencia # o.es_incidencia
    THEN caso_discrepancia(c, o, NoComparacion)
    ELSE {Final("None", 0, ErrorResult, "error", TRUE, "absent",
                NoComparacion)}

\* no consensus computed yet
Pending ==
    Final("None", 0, ErrorResult, "pending", FALSE, "absent", NoComparacion)

\* outside a test run
CIdle ==
    /\ claude_result = ErrorResult
    /\ openai_result = ErrorResult
    /\ resultado_final = Pending
    /\ cimpl = "none"

\* a test run has classified one message with both models
CInit ==
    /\ claude_result \in Results("claude")
    /\ openai_result \in Results("openai")
    /\ resultado_final = Pending
    /\ cimpl = "none"

\* run_test.py: resultado_final = self.voting.consensus(...)
run_test ==
    /\ cimpl = "none"
    /\ resultado_final' \in consensus(claude_result, openai_result)
    /\ cimpl' = "run_test"
    /\ UNCHANGED <<claude_result, openai_result>>
    /\ UNCHANGED crest

\* run_test_standalone.py: resultado_final = self.voting.consensus(...)
run_test_standalone ==
    /\ cimpl = "none"
    /\ resultado_final' \in consensus_standalone(claude_result, openai_result)
    /\ cimpl' = "run_test_standalone"
    /\ UNCHANGED <<claude_result, openai_result>>
    /\ UNCHANGED crest

(***************************************************************************)
(* Keyword fallback: MessageClassifier._fallback_classification            *)
(***************************************************************************)
\* self.fallback_keywords
fallback_keywords ==
    [urgent |-> {"urgente", "no funciona", "cerrado", "sistema caído",
                 "no pueden vender", "error", "crítico"},
     technical |-> {"pos", "sistema", "software", "aplicación", "red",
                    "internet", "servidor", "base de datos"},
     operational |-> {"tienda", "inventario", "producto", "cliente", "venta",
                      "caja", "personal"},
     billing |-> {"factura", "cobro", "pago", "precio", "descuento",
                  "promoción"},
     general |-> {"pregunta", "consulta", "información", "horario",
                  "ubicación"}]

\* the keywords added to the urgent ones in incident_indicators
problem_keywords ==
    {"problema", "ayuda", "falla", "no puede", "error", "roto"}

\* incident_indicators with the problem keywords left out
incident_indicators_urgent_only == fallback_keywords.urgent

\* incident_indicators
incident_indicators == fallback_keywords.urgent \cup problem_keywords

\* the phrases texts are made of
Phrases ==
    {"El sistema POS no funciona urgente",
     "Hay un error en la factura del cliente",
     "Hola, ¿cómo están todos hoy?",
     "sistema caído",
     "ayuda",
     "AYUDA"}

Texts == UNION {[1..n -> Phrases] : n \in 0..MaxPhrases}

\* str.lower() of a phrase
lower(p) ==
    CASE p = "El sistema POS no funciona urgente"
            -> "el sistema pos no funciona urgente"
      [] p = "Hay un error en la factura del cliente"
            -> "hay un error en la factura del cliente"
      [] p = "Hola, ¿cómo están todos hoy?" -> "hola, ¿cómo están todos hoy?"
      [] p = "AYUDA" -> "ayuda"
      [] OTHER -> p

\* the keywords that are substrings of a phrase (`keyword in phrase`); the
\* comparison is case-sensitive, so a phrase with capitals holds none of them
Inside(p) ==
    CASE p = "el sistema pos no funciona urgente"
            -> {"sistema", "pos", "no funciona", "urgente"}
      [] p = "hay un error en la factura del cliente"
            -> {"error", "factura", "cliente"}
      [] p = "sistema caído" -> {"sistema caído", "sistema"}
      [] p = "ayuda" -> {"ayuda"}
      [] OTHER -> {}

\* text_lower = text.lower()
text_lower(text) == [i \in 1..Len(text) |-> lower(text[i])]

\* keyword in text_lower
in_text(keyword, t) == \E i \in 1..Len(t) : keyword \in Inside(t[i])

any_in(keywords, t) == \E keyword \in keywords : in_text(keyword, t)

\* _extract_trigger_words: list(set(found_words))
extract_trigger_words(text) ==
    {keyword \in fallback_keywords.urgent \cup fallback_keywords.technical
                 \cup fallback_keywords.operational
                 \cup fallback_keywords.billing
                 \cup fallback_keywords.general :
        in_text(keyword, text_lower(text))}

\* the 0.2 per trigger word, the cap of 0.8 and the 0.3 of a non-incident
TriggerWeight == (One * 2) \div 10
ConfidenceCap == (One * 8) \div 10
NonIncidentConfidence == (One * 3) \div 10

Min(a, b) == IF a <= b THEN a ELSE b

\* a ClassificationResponse
Response(is_incident, confidence, category, urgency, words, method) ==
    [is_support_incident |-> is_incident, confidence |-> confidence,
     category |-> category, urgency |-> urgency, trigger_words |-> words,
     method |-> method]

fallback_category(t, is_incident) ==
    IF any_in(fallback_keywords.urgent, t) THEN <<"technical", "critical">>
    ELSE IF any_in(fallback_keywords.technical, t)
    THEN <<"technical", "medium">>
    ELSE IF any_in(fallback_keywords.billing, t) THEN <<"billing", "medium">>
    ELSE IF any_in(fallback_keywords.operational, t)
    THEN <<"general_inquiry", "low">>
    ELSE IF is_incident THEN <<"technical", "medium">>
    ELSE <<"not_support", "low">>

\* _fallback_classification
fallback_classification(text) ==
    LET t == text_lower(text)
        trigger_words == extract_trigger_words(text)
        is_incident == any_in(incident_indicators, t)
        confidence ==
            IF is_incident
            THEN Min(ConfidenceCap, Cardinality(trigger_words) * TriggerWeight)
            ELSE NonIncidentConfidence
        cu == fallback_category(t, is_incident)
    IN Response(is_incident, confidence, cu[1], cu[2], trigger_words,
                "keyword_fallback")

(***************************************************************************)
(* Gateway: AIModelManager.classify_message and MessageClassifier.classify *)
(***************************************************************************)
\* a key the provider's JSON object does not have, and a value the schema
\* rejects (float("high"), a string that is no boolean)
Missing == -1
Invalid == -2

\* "is_support_incident" and "confidence" of a payload
Flags == {"True", "False", "missing", "invalid"}
PayloadConfs == {(One * 85) \div 100, Missing, Invalid}

\* the dict a provider's JSON decodes to
Payloads ==
    [is_support_incident : Flags, confidence : PayloadConfs,
     category : {"technical", "missing"}, summary : {"resumen"}]

NoPayload ==
    [is_support_incident |-> "missing", confidence |-> Missing,
     category |-> "missing", summary |-> "none"]

\* what _call_model does: raises, returns None (no client for the provider),
\* returns an empty JSON object, returns a non-empty dict
Outcomes ==
    [kind : {"raise", "none", "empty"}, payload : {NoPayload}]
    \cup [kind : {"result"}, payload : Payloads]

NotCalled == [kind |-> "not_called", payload |-> NoPayload]

\* `if result:` — None and {} are falsy
Truthy(out) == out.kind = "result"

\* _default_classification with is_support_incident False
default_classification_negative ==
    [is_support_incident |-> "False", confidence |-> One \div 10,
     category |-> "general_inquiry",
     summary |-> "Mensaje requiere revisión manual"]

\* _default_classification
default_classification ==
    [is_support_incident |-> "True", confidence |-> One \div 10,
     category |-> "general_inquiry",
     summary |-> "Mensaje requiere revisión manual"]

primary_model == "openai"
fallback_model == "google"

\* ClassificationResponse(...) raised
Raised == Response(FALSE, 0, "raised", "raised", {}, "raised")

\* ClassificationResponse(is_support_incident=ai_result.get(..., False),
\* confidence=float(ai_result.get("confidence", 0.0)), ...)
build_response(ai, text) ==
    IF ai.is_support_incident = "invalid" \/ ai.confidence = Invalid
    THEN Raised
    ELSE Response(ai.is_support_incident = "True",
                  IF ai.confidence = Missing THEN 0 ELSE ai.confidence,
                  IF ai.category = "missing" THEN "general_inquiry"
                  ELSE ai.category,
                  "low", extract_trigger_words(text), "ai")

\* _convert_ai_result
convert_ai_result(ai, text) ==
    IF build_response(ai, text) = Raised
    THEN fallback_classification(text)
    ELSE build_response(ai, text)

NoResponse == Response(FALSE, 0, "none", "none", {}, "none")

\* outside a classify call
GIdle ==
    /\ gtext = <<>>
    /\ gpc = "idle"
    /\ gcalls = <<>>
    /\ gprimary = NotCalled
    /\ gsecondary = NotCalled
    /\ gret = NoPayload
    /\ gresult = NoResponse
    /\ published = <<>>

\* classify(text, context) was called
GInit ==
    /\ gtext \in Texts
    /\ gpc = "classify"
    /\ gcalls = <<>>
    /\ gprimary = NotCalled
    /\ gsecondary = NotCalled
    /\ gret = NoPayload
    /\ gresult = NoResponse
    /\ published = <<>>

\* classify_message: result = await self._call_model(self.primary_model, ...)
call_primary ==
    /\ gpc = "classify"
    /\ \E out \in Outcomes :
          /\ gprimary' = out
          /\ gcalls' = Append(gcalls, primary_model)
          /\ IF Truthy(out)
             THEN gret' = out.payload /\ gpc' = "convert"
             ELSE gret' = gret /\ gpc' = "fallback"
    /\ UNCHANGED <<gtext, gsecondary, gresult>>
    /\ UNCHANGED published
    /\ UNCHANGED grest

\* classify_message: result = await self._call_model(self.fallback_model,
\* ...), then return self._default_classification()
call_fallback ==
    /\ gpc = "fallback"
    /\ \E out \in Outcomes :
          /\ gsecondary' = out
          /\ gcalls' = Append(gcalls, fallback_model)
          /\ gret' = IF Truthy(out) THEN out.payload
                     ELSE default_classification
    /\ gpc' = "convert"
    /\ UNCHANGED <<gtext, gprimary, gresult>>
    /\ UNCHANGED published
    /\ UNCHANGED grest

\* model_manager.classify_message itself raises
classify_message_raises ==
    /\ gpc = "classify"
    /\ gpc' = "except"
    /\ UNCHANGED <<gtext, gcalls, gprimary, gsecondary, gret, gresult>>
    /\ UNCHANGED published
    /\ UNCHANGED grest

\* classify: result = self._convert_ai_result(ai_result, text); return result
classify_convert ==
    /\ gpc = "convert"
    /\ gresult' = convert_ai_result(gret, gtext)
    /\ gpc' = "done"
    /\ UNCHANGED <<gtext, gcalls, gprimary, gsecondary, gret>>
    /\ UNCHANGED published
    /\ UNCHANGED grest

\* the handler of classify that lets the exception through
classify_reraise ==
    /\ gpc = "except"
    /\ gresult' = Raised
    /\ gpc' = "done"
    /\ UNCHANGED <<gtext, gcalls, gprimary, gsecondary, gret>>
    /\ UNCHANGED published
    /\ UNCHANGED grest

\* classify: except Exception: return self._fallback_classification(text)
classify_except ==
    /\ gpc = "except"
    /\ gresult' = fallback_classification(gtext)
    /\ gpc' = "done"
    /\ UNCHANGED <<gtext, gcalls, gprimary, gsecondary, gret>>
    /\ UNCHANGED published
    /\ UNCHANGED grest

\* the channels handle_whatsapp_message publishes on
TicketChannel == "tickets:classify:result"
ResponseChannel == "agents:responses"

\* classification.confidence > 0.7
HighConfidence == (One * 7) \div 10

\* redis_client.publish_message(channel, ...): the call is made, Redis
\* takes the message or publish_message logs the failure and returns False
publish_message(log, channel, delivered) ==
    Append(log, [channel |-> channel, delivered |-> delivered])

\* truthiness of classification.suggested_response: the keyword fallback and
\* the default classification always give a text; a provider's dict may
\* lack it (ai_result.get("suggested_response", ""))
SuggestedResponses ==
    IF gresult.method = "ai" /\ gret # default_classification
    THEN BOOLEAN ELSE {TRUE}

\* handle_whatsapp_message with `if classification.confidence > 0.7` as the
\* outer test
handle_whatsapp_message_confident ==
    /\ gpc = "done"
    /\ gpc' = "handled"
    /\ \E suggested \in SuggestedResponses, d1, d2 \in BOOLEAN :
          published' =
             IF gresult.confidence > HighConfidence
             THEN LET first == publish_message(published, TicketChannel, d1)
                  IN IF suggested
                     THEN publish_message(first, ResponseChannel, d2)
                     ELSE first
             ELSE published
    /\ UNCHANGED <<gtext, gcalls, gprimary, gsecondary, gret, gresult>>
    /\ UNCHANGED grest

\* handle_whatsapp_message, after `classification = await
\* classifier.classify(...)` returned
handle_whatsapp_message ==
    /\ gpc = "done"
    /\ gpc' = "handled"
    /\ \E suggested \in SuggestedResponses, d1, d2 \in BOOLEAN :
          published' =
             IF gresult.is_support_incident
             THEN LET first == publish_message(published, TicketChannel, d1)
                  IN IF gresult.confidence > HighConfidence /\ suggested
                     THEN publish_message(first, ResponseChannel, d2)
                     ELSE first
             ELSE published
    /\ UNCHANGED <<gtext, gcalls, gprimary, gsecondary, gret, gresult>>
    /\ UNCHANGED grest

Init == QInit /\ TInit /\ CIdle /\ GIdle

\* The ticket service with the background processor as the only caller of
\* process_queue
Next ==
    \/ BackendFails
    \/ BackendRecovers
    \/ \E r \in Items : create_ticket(r)
    \/ \E r \in Items : handle_classification_result(r)
    \/ queue_processor_background
    \/ process_queue("background")
    \/ BackoffElapsed
    \/ Shutdown
    \/ Restart

Spec == Init /\ [][Next]_vars

\* The same service when POST /queue/process is called as well
NextOverlap ==
    \/ Next
    \/ process_queue_endpoint
    \/ process_queue("manual")

SpecOverlap == Init /\ [][NextOverlap]_vars

\* failed attempts counted on the queue items so far
RECURSIVE SumAttempts(_, _)
SumAttempts(att, S) ==
    IF S = {} THEN 0
    ELSE LET i == CHOOSE x \in S : TRUE
         IN att[i] + SumAttempts(att, S \ {i})

\* behaviours of SpecFifo count at most this many failed attempts
MaxFailures == 2

\* The ticket service with several requests waiting for one background
\* processor; the requests are numbered in the order they arrive
NextFifo ==
    \/ BackendFails
    \/ BackendRecovers
    \/ \E r \in QueueItems :
          /\ \A o \in QueueItems : o < r => outcome[o] # "new"
          /\ create_ticket(r)
    \/ queue_processor_background
    \/ /\ process_queue("background")
       /\ SumAttempts(attempts', AllItems) <= MaxFailures
    \/ BackoffElapsed

SpecFifo == Init /\ [][NextFifo]_vars

\* Two ticket requests, the background processor and POST /queue/process
\* starting passes next to it
NextPairOverlap ==
    \/ BackendFails
    \/ BackendRecovers
    \/ create_ticket(1)
    \/ outcome[1] # "new" /\ create_ticket(2)
    \/ queue_processor_background
    \/ /\ process_queue("background")
       /\ SumAttempts(attempts', AllItems) <= MaxFailures
    \/ BackoffElapsed
    \/ process_queue_endpoint
    \/ /\ process_queue("manual")
       /\ SumAttempts(attempts', AllItems) <= MaxFailures

SpecPairOverlap == Init /\ [][NextPairOverlap]_vars

\* The background task is scheduled fairly: asyncio resumes every task whose
\* awaited call has returned, and the sleeps of queue_processor_background end
FairSpec ==
    /\ Spec
    /\ WF_vars(queue_processor_background)
    /\ WF_vars(process_queue("background"))
    /\ WF_vars(BackoffElapsed)

\* The service when the list pending_tickets can hold an entry that is not
\* a serialized queue item
NextCorrupt ==
    \/ Next
    \/ CorruptEntry

SpecCorrupt == Init /\ [][NextCorrupt]_vars

\* The service with one ticket request, under the same fair scheduling
NextScheduler ==
    \/ BackendFails
    \/ BackendRecovers
    \/ create_ticket(1)
    \/ handle_classification_result(1)
    \/ queue_processor_background
    \/ process_queue("background")
    \/ BackoffElapsed
    \/ Shutdown
    \/ Restart

FairSpecScheduler ==
    /\ Init
    /\ [][NextScheduler]_vars
    /\ WF_vars(queue_processor_background)
    /\ WF_vars(process_queue("background"))
    /\ WF_vars(BackoffElapsed)

(***************************************************************************)
(* Properties of the ticket service                                        *)
(***************************************************************************)
Held(i) == \E p \in Passes : held[p] = i

\* C1: every incident report handed to the ticket service ends up created
\* in the backend or enqueued for retry; it is never dropped and the caller
\* never gets a bare failure.
C1_CreatedOrQueued ==
    \A r \in Items : outcome[r] \in {"new", "created", "queued"}

\* C2: the backend creates at most one ticket per ticket request; after a
\* successful create the request is never submitted again.
C2_NoDoubleDelivery ==
    \A r \in Items : tickets[r] <= 1

\* C3: if the backend eventually stays available, and the background
\* processor keeps running (never cancelled, never hit by a processor-level
\* error, client connected, events published), every item that was enqueued
\* eventually reaches status completed.
C3_EventualDelivery ==
    ( /\ <>[]backendUp
      /\ [](connected /\ sched \in {"sleep", "pass"})
      /\ [](\A i \in Items : error[i] # "publish") )
    => \A i \in Items : [](status[i] = "queued" => <>(status[i] = "completed"))

\* C4: an enqueued item whose status is not completed or failed is in the
\* pending list or held by the pass that popped it (which will put it back).
C4_NoItemLost ==
    \A i \in Items :
        status[i] \in {"queued", "retrying"} => (InQueue(i) \/ Held(i))

\* C5: within one call of process_queue each item is attempted at most once.
C5_OneAttemptPerPass ==
    \A p \in Passes : \A i \in Items : tried[p][i] <= 1

\* C6: when the handler of a failed backend create runs for an item with
\* attempts = n, attempts becomes n+1 and the error is recorded; the item is
\* pushed back with status retrying iff n+1 < max_attempts, otherwise its
\* status becomes failed; a failed item is never in the list nor held again.
C6_FailureAccounting ==
    [][ /\ \A p \in Passes :
              (pc[p] = "except" /\ raised[p] = "backend" /\ pc'[p] = "pop")
              => LET i == held[p]
                     n == attempts[i]
                 IN /\ attempts'[i] = n + 1
                    /\ error'[i] = "backend"
                    /\ (n + 1 < MaxAttempts) <=>
                          (status'[i] = "retrying" /\ queue' = <<i>> \o queue)
                    /\ (n + 1 >= MaxAttempts) <=>
                          (status'[i] = "failed" /\ queue' = queue)
        /\ \A i \in Items :
              status[i] = "failed" => (~InQueue(i)' /\ ~Held(i)')
      ]_vars

C6_Witness ==
    \E i \in Items :
        /\ status[i] = "failed"
        /\ attempts[i] = MaxAttempts
        /\ error[i] = "backend"
        /\ tickets[i] = 0

\* C7: when a pass returns, every item whose backend create succeeded in
\* that pass has status completed with the ticket id stored, and exactly
\* one tickets:created event was published for it.
C7_CompletedOnce ==
    [][ \A p \in Passes :
            (pc[p] = "pop" /\ pc'[p] = "idle" /\ sched' # "cancelled")
            => \A i \in made[p] :
                  status'[i] = "completed" /\ stored'[i] /\ events'[i] = 1
      ]_vars

\* C8: a retrying item never returns to queued; completed and failed are
\* terminal and such an item is never in the pending list afterwards.
C8_StatusOrder ==
    [][ \A i \in Items :
            /\ status[i] = "retrying" => status'[i] # "queued"
            /\ status[i] \in {"completed", "failed"}
                  => (status'[i] = status[i] /\ ~InQueue(i)')
      ]_vars

\* C9: two process_queue passes are never active at the same time.
C9_NoOverlap ==
    ~(pc["background"] # "idle" /\ pc["manual"] # "idle")

(***************************************************************************)
(* Message-handling tasks over the conversation tracker                    *)
(***************************************************************************)
NextTracker ==
    \/ Tick
    \/ \E t \in Tasks : CheckExisting(t)
    \/ \E t \in Tasks : CreateTicket(t)
    \/ \E t \in Tasks : register_incident(t)
    \/ \E t \in Tasks : add_message_to_thread_load(t)
    \/ \E t \in Tasks : add_message_to_thread_store(t)

\* the tracker does not depend on the ticketing backend
TrackerInit == Init /\ backendUp

SpecTracker == TrackerInit /\ [][NextTracker]_vars

(***************************************************************************)
(* One consensus per pair of classifier results                            *)
(***************************************************************************)
ConsensusInit == QInit /\ backendUp /\ TInit /\ CInit /\ GIdle

NextConsensus ==
    \/ run_test
    \/ run_test_standalone

SpecConsensus == ConsensusInit /\ [][NextConsensus]_vars

\* The same tasks when the service handles one message at a time
NextTrackerSeq ==
    \/ Tick
    \/ CheckExisting(1)
    \/ CreateTicket(1)
    \/ register_incident(1)
    \/ add_message_to_thread_load(1)
    \/ add_message_to_thread_store(1)

SpecTrackerSeq == TrackerInit /\ [][NextTrackerSeq]_vars

\* One message at a time, replies to system messages of any wording included
NextQuoted ==
    \/ NextTrackerSeq
    \/ CheckExistingQuoted(1)

SpecQuoted == TrackerInit /\ [][NextQuoted]_vars

(***************************************************************************)
(* One call of MessageClassifier.classify                                  *)
(***************************************************************************)
GatewayInit == QInit /\ backendUp /\ TInit /\ CIdle /\ GInit

NextGateway ==
    \/ call_primary
    \/ call_fallback
    \/ classify_message_raises
    \/ classify_convert
    \/ classify_except

SpecGateway == GatewayInit /\ [][NextGateway]_vars

\* the event loop resumes classify after every await
FairSpecGateway == SpecGateway /\ WF_vars(NextGateway)

(***************************************************************************)
(* One inbound message through handle_whatsapp_message                     *)
(***************************************************************************)
NextHandler ==
    \/ NextGateway
    \/ handle_whatsapp_message

SpecHandler == GatewayInit /\ [][NextHandler]_vars

ActiveIncidents(c) == {id \in TicketIds : store[<<c, id>>] # Absent}

\* C10: the store never holds two unexpired incidents with the same
\* context_key.
C10_OneIncidentPerContext ==
    \A c \in ContextKeys : Cardinality(ActiveIncidents(c)) <= 1

(***************************************************************************)
(* Properties of check_existing_incident and add_message_to_thread         *)
(***************************************************************************)
\* the step in which task t gets the answer of check_existing_incident for
\* its message tmsg'[t]: the answer is tticket'[t], None for "new incident"
Checked(t) == Free(t) /\ tpc'[t] \in {"create", "append"}

QuotesBot(m, k) ==
    m.quoted # NoQuote /\ m.quoted.participant = BotJid
        /\ m.quoted.text = TicketText(k)

QuotesOther(m) == m.quoted # NoQuote /\ m.quoted.participant # BotJid

Age(c, id) == now - store[<<c, id>>].timestamp

\* C11: a message that quotes a message sent by someone other than the bot
\* always gets the answer none from check_existing_incident, whatever
\* incidents are stored.
C11_QuotedOtherSenderNone ==
    [][ \A t \in Tasks :
            (Checked(t) /\ QuotesOther(tmsg'[t])) => tticket'[t] = None
      ]_vars

\* C12: a message without a quote whose context has a stored incident that
\* was updated less than INCIDENT_TTL seconds ago is matched to an incident of
\* that context, however long ago the incident was registered.
C12_SlidingExpiry ==
    [][ \A t \in Tasks :
            (Checked(t) /\ tmsg'[t].quoted = NoQuote)
            => LET c == ContextOf(tmsg'[t])
               IN (\E id \in ActiveIncidents(c) :
                      now - store[<<c, id>>].last_update < INCIDENT_TTL)
                  => tticket'[t] \in ActiveIncidents(c)
      ]_vars

\* C13: for a message without a quote the answer is none when its context has
\* no stored incident; otherwise it is decided by a stored incident of the
\* context with the most recent timestamp: that incident's id when
\* now - timestamp < INCIDENT_TTL (strictly), none when the age is
\* INCIDENT_TTL or more.
C13_TimeWindow ==
    [][ \A t \in Tasks :
            (Checked(t) /\ tmsg'[t].quoted = NoQuote)
            => LET c == ContextOf(tmsg'[t])
                   res == tticket'[t]
                   latest == {id \in ActiveIncidents(c) :
                                \A o \in ActiveIncidents(c) :
                                    Age(c, id) <= Age(c, o)}
               IN /\ res # None =>
                        (res \in latest /\ Age(c, res) < INCIDENT_TTL)
                  /\ res = None =>
                        (\A id \in latest : Age(c, id) >= INCIDENT_TTL)
      ]_vars

\* a task was told "new incident" although its context holds an incident
\* whose age has reached INCIDENT_TTL
C13_Witness ==
    \E t \in Tasks :
        /\ tpc[t] = "create"
        /\ tmsg[t].quoted = NoQuote
        /\ \E id \in ActiveIncidents(ContextOf(tmsg[t])) :
              Age(ContextOf(tmsg[t]), id) >= INCIDENT_TTL

\* C14: right after register_incident stored ticket k, a reply that quotes
\* the bot's message "Ticket #k ..." gets the answer k.
C14_RoundTrip ==
    [][ \A t \in Tasks : \A k \in TicketIds :
            ( /\ Checked(t)
              /\ QuotesBot(tmsg'[t], k)
              /\ \E c \in ContextKeys :
                    /\ store[<<c, k>>] # Absent
                    /\ store[<<c, k>>].timestamp = now
                    /\ store[<<c, k>>].last_update = now )
            => tticket'[t] = k
      ]_vars

C14_Witness ==
    \E t \in Tasks : \E k \in TicketIds : \E c \in ContextKeys :
        /\ tpc[t] = "append"
        /\ QuotesBot(tmsg[t], k)
        /\ tticket[t] = k
        /\ store[<<c, k>>] # Absent
        /\ store[<<c, k>>].timestamp = now
        /\ Len(store[<<c, k>>].thread) = 1

\* C15: when the quoted message is the bot's and the ticket id in its text is
\* active, that id is the answer, also when the message's context holds a
\* different, more recent incident; an id that is not active is never the
\* answer.
C15_QuotedFirst ==
    [][ \A t \in Tasks : \A k \in TicketIds :
            (Checked(t) /\ QuotesBot(tmsg'[t], k))
            => IF \E c \in ContextKeys : store[<<c, k>>] # Absent
               THEN tticket'[t] = k
               ELSE tticket'[t] # k
      ]_vars

C15_Witness ==
    \E t \in Tasks : \E k \in TicketIds : \E c \in ContextKeys :
        /\ tpc[t] = "append"
        /\ QuotesBot(tmsg[t], k)
        /\ tticket[t] = k
        /\ store[<<c, k>>] # Absent
        /\ \E o \in ActiveIncidents(ContextOf(tmsg[t])) :
              /\ o # k
              /\ store[<<ContextOf(tmsg[t]), o>>].timestamp
                    > store[<<c, k>>].timestamp

\* C16: the quoted-reply extraction yields no ticket id for any quoted sender
\* other than the bot's own identifier, identifiers that contain the bot's
\* number included.
C16_OnlyOwnIdentity ==
    \A m \in Inbound(nextMsg) :
        QuotesOther(m) => extract_ticket_from_quoted(store, m) = None

\* C17: add_message_to_thread on a stored incident writes back, under the
\* same key, the incident it read with the message id appended at the end of
\* the thread, last_update set to now and the TTL reset to INCIDENT_TTL;
\* ticket_id, group_id and timestamp stay as read and no other key changes.
\* For a ticket id without a stored incident it returns False and writes
\* nothing.
C17_AppendFrame ==
    [][ \A t \in Tasks :
            /\ (tpc[t] = "append_store" /\ tpc'[t] = "done")
               => LET inc == tloaded[t]
                      key == <<inc.group_id, inc.ticket_id>>
                  IN /\ store'[key].thread = inc.thread \o <<tmsg[t].id>>
                     /\ store'[key].ticket_id = tticket[t]
                     /\ store'[key].group_id = inc.group_id
                     /\ store'[key].timestamp = inc.timestamp
                     /\ store'[key].last_update = now
                     /\ store'[key].expires = now + INCIDENT_TTL
                     /\ \A k \in Keys \ {key} : store'[k] = store[k]
            /\ (tpc[t] = "append" /\ tpc'[t] = "not_added")
               => /\ store' = store
                  /\ \A c \in ContextKeys : store[<<c, tticket[t]>>] = Absent
            /\ (tpc[t] = "append" /\ tpc'[t] = "append_store")
               => \E c \in ContextKeys :
                     /\ store[<<c, tticket[t]>>] # Absent
                     /\ tloaded'[t] = store[<<c, tticket[t]>>]
      ]_vars

C17_Witness ==
    \E k \in Keys :
        /\ store[k] # Absent
        /\ Len(store[k].thread) >= 2
        /\ store[k].last_update > store[k].timestamp
        /\ store[k].expires = store[k].last_update + INCIDENT_TTL

(***************************************************************************)
(* Properties of the consensus                                             *)
(***************************************************************************)
\* the consensus function of the script that ran
Resolve(c, o) ==
    IF cimpl = "run_test" THEN consensus(c, o) ELSE consensus_standalone(c, o)

BothSay(es) ==
    claude_result.es_incidencia = es /\ openai_result.es_incidencia = es

Disagree ==
    /\ claude_result.es_incidencia # "None"
    /\ openai_result.es_incidencia # "None"
    /\ claude_result.es_incidencia # openai_result.es_incidencia

\* (a + b) / 2 * 1.1 capped at 1.0, in twentieths of a ten-thousandth
BothYesTarget(a, b) ==
    IF (a + b) * 11 >= One * 20 THEN One * 20 ELSE (a + b) * 11

\* a larger confidence of either model never gives a smaller consensus
\* confidence, and the consensus confidence never exceeds 1.0
BothYesMonotonic ==
    /\ resultado_final.confianza <= One
    /\ \A a2 \in Confs :
          a2 > claude_result.confianza =>
             \A r \in Resolve([claude_result EXCEPT !.confianza = a2],
                              openai_result) :
                 r.confianza >= resultado_final.confianza
    /\ \A b2 \in Confs :
          b2 > openai_result.confianza =>
             \A r \in Resolve(claude_result,
                              [openai_result EXCEPT !.confianza = b2]) :
                 r.confianza >= resultado_final.confianza

\* C18 as stated: when both models say incident the consensus is ambos_si,
\* an incident, without review, with confidence exactly
\* min((a + b) / 2 * 1.1, 1.0), monotonic in a and b and at most 1.0.
C18_BothYesExact ==
    (cimpl # "none" /\ BothSay("True"))
    => /\ resultado_final.tipo = "ambos_si"
       /\ resultado_final.es_incidencia = "True"
       /\ resultado_final.requiere_revision = FALSE
       /\ resultado_final.confianza * 20
             = BothYesTarget(claude_result.confianza, openai_result.confianza)
       /\ BothYesMonotonic

\* C18 amended: as above with the confidence being
\* min((a + b) / 2 * 1.1, 1.0) rounded to three decimals, i.e. within half a
\* thousandth of it.
C18_BothYesRounded ==
    (cimpl # "none" /\ BothSay("True"))
    => LET d == resultado_final.confianza * 20
                  - BothYesTarget(claude_result.confianza,
                                  openai_result.confianza)
       IN /\ resultado_final.tipo = "ambos_si"
          /\ resultado_final.es_incidencia = "True"
          /\ resultado_final.requiere_revision = FALSE
          /\ -10 * Milli <= d /\ d <= 10 * Milli
          /\ BothYesMonotonic

\* confidences 0.9 and 0.8 give 0.935
C18_Witness ==
    /\ cimpl = "run_test"
    /\ BothSay("True")
    /\ claude_result.confianza = 9000
    /\ openai_result.confianza = 8000
    /\ resultado_final.confianza = 9350
    /\ resultado_final.tipo = "ambos_si"

\* the opinions with the higher confidence (both when the two are equal)
MoreConfident ==
    {p \in {claude_result, openai_result} :
        /\ p.confianza >= claude_result.confianza
        /\ p.confianza >= openai_result.confianza}

TakenFrom(p) ==
    /\ resultado_final.es_incidencia = p.es_incidencia
    /\ resultado_final.categoria = p.categoria
    /\ resultado_final.prioridad = p.prioridad
    /\ resultado_final.metadata = p.metadata

\* C19 as stated: when both models answer and disagree the consensus is
\* discrepancia, marked for review, with is_incident, category, priority and
\* metadata of the more confident opinion and exactly 0.85 times its
\* confidence.
C19_DisagreementExact ==
    (cimpl # "none" /\ Disagree)
    => /\ resultado_final.tipo = "discrepancia"
       /\ resultado_final.requiere_revision = TRUE
       /\ \E p \in MoreConfident :
             /\ TakenFrom(p)
             /\ resultado_final.confianza * 20 = p.confianza * 17

\* C19 amended: as above with the confidence being 0.85 times the primary
\* opinion's confidence rounded to three decimals.
C19_DisagreementRounded ==
    (cimpl # "none" /\ Disagree)
    => /\ resultado_final.tipo = "discrepancia"
       /\ resultado_final.requiere_revision = TRUE
       /\ \E p \in MoreConfident :
             /\ TakenFrom(p)
             /\ resultado_final.confianza * 20 - p.confianza * 17 <= 10 * Milli
             /\ p.confianza * 17 - resultado_final.confianza * 20 <= 10 * Milli

\* openai is the more confident model and its answer is taken
C19_Witness ==
    /\ cimpl # "none"
    /\ Disagree
    /\ claude_result.confianza = 8000
    /\ openai_result.confianza = 9000
    /\ resultado_final.es_incidencia = openai_result.es_incidencia
    /\ resultado_final.metadata = "openai"
    /\ resultado_final.confianza = 7650
    /\ resultado_final.requiere_revision = TRUE

\* C20: when exactly one model failed the consensus is error_parcial, marked
\* for review, with is_incident, category and priority of the model that
\* answered, whichever of the two it is, and 0.75 times its confidence.
C20_ErrorPartial ==
    \A p \in {claude_result, openai_result} :
        ( /\ cimpl # "none"
          /\ p.es_incidencia # "None"
          /\ \E q \in {claude_result, openai_result} :
                q.es_incidencia = "None" )
        => /\ resultado_final.tipo = "error_parcial"
           /\ resultado_final.requiere_revision = TRUE
           /\ resultado_final.es_incidencia = p.es_incidencia
           /\ resultado_final.categoria = p.categoria
           /\ resultado_final.prioridad = p.prioridad
           /\ resultado_final.confianza * 4 = p.confianza * 3

\* C21: when both models say incident, category, priority and metadata of
\* the consensus are those of the model with the higher confidence, and those
\* of the first model (claude) when the two confidences are equal.
C21_BothYesPrimary ==
    (cimpl # "none" /\ BothSay("True"))
    => LET p == IF openai_result.confianza > claude_result.confianza
                THEN openai_result ELSE claude_result
       IN /\ resultado_final.categoria = p.categoria
          /\ resultado_final.prioridad = p.prioridad
          /\ resultado_final.metadata = p.metadata

\* equal confidences, different categories and priorities: claude's are taken
C21_Witness ==
    /\ cimpl # "none"
    /\ BothSay("True")
    /\ claude_result.confianza = openai_result.confianza
    /\ claude_result.categoria # openai_result.categoria
    /\ claude_result.prioridad # openai_result.prioridad
    /\ resultado_final.categoria = claude_result.categoria
    /\ resultado_final.prioridad = claude_result.prioridad
    /\ resultado_final.metadata = "claude"

BothNoFrame ==
    /\ resultado_final.tipo = "ambos_no"
    /\ resultado_final.es_incidencia = "False"
    /\ resultado_final.categoria = "None"
    /\ resultado_final.prioridad = "None"
    /\ resultado_final.requiere_revision = FALSE

\* C22 as stated: when both models say not-incident the consensus is
\* ambos_no, not an incident, without category and priority, without review,
\* with confidence exactly max(a, b).
C22_BothNoExact ==
    (cimpl # "none" /\ BothSay("False"))
    => /\ BothNoFrame
       /\ resultado_final.confianza
             = Max(claude_result.confianza, openai_result.confianza)

\* C22 amended: as above with the confidence being max(a, b) rounded to
\* three decimals, i.e. within half a thousandth of it.
C22_BothNoRounded ==
    (cimpl # "none" /\ BothSay("False"))
    => LET d == resultado_final.confianza
                  - Max(claude_result.confianza, openai_result.confianza)
       IN /\ BothNoFrame
          /\ resultado_final.confianza % Milli = 0
          /\ -Milli <= 2 * d /\ 2 * d <= Milli

\* confidences 0.8567 and 0.25 give 0.857
C22_Witness ==
    /\ cimpl # "none"
    /\ BothSay("False")
    /\ claude_result.confianza = 2500
    /\ openai_result.confianza = 8567
    /\ resultado_final.confianza = 8570
    /\ resultado_final.tipo = "ambos_no"

\* the consensus kind the pair of answers determines
KindOf(a, b) ==
    IF a = "True" /\ b = "True" THEN "ambos_si"
    ELSE IF a = "False" /\ b = "False" THEN "ambos_no"
    ELSE IF a # "None" /\ b # "None" THEN "discrepancia"
    ELSE IF a = "None" /\ b = "None" THEN "error_ambos"
    ELSE "error_parcial"

\* C23: every pair of answers in {true, false, null} x {true, false, null}
\* gives a consensus whose kind is the one the pair determines (both null:
\* error_ambos with is_incident null and confidence 0.0), and every consensus
\* carries the raw values of both models in its comparison report.
C23_Total ==
    cimpl # "none"
    => /\ resultado_final.tipo
             = KindOf(claude_result.es_incidencia, openai_result.es_incidencia)
       /\ BothSay("None") =>
             (resultado_final.es_incidencia = "None"
                 /\ resultado_final.confianza = 0)
       /\ resultado_final.comparacion.present
       /\ resultado_final.comparacion.claude = Raw(claude_result)
       /\ resultado_final.comparacion.openai = Raw(openai_result)

(***************************************************************************)
(* Properties of the classification gateway                                *)
(***************************************************************************)
\* the provider raised, has no client, or returned an empty object
Failed(out) == out.kind \in {"raise", "none", "empty"}

\* C24: the primary provider is called first and its result is returned
\* unchanged, without a call of the secondary, when it succeeds; the secondary
\* is called only after the primary raised or produced no result; the
\* conservative default (is_incident true, confidence 0.1, category
\* general_inquiry) is returned if and only if both providers failed.
C24_PrimaryThenFallback ==
    /\ gcalls \in {<<>>, <<primary_model>>, <<primary_model, fallback_model>>}
    /\ Truthy(gprimary) => (gret = gprimary.payload /\ Len(gcalls) = 1)
    /\ Len(gcalls) = 2 => Failed(gprimary)
    /\ (gret = default_classification)
          <=> (Failed(gprimary) /\ Failed(gsecondary))
    /\ (Failed(gprimary) /\ Failed(gsecondary))
          => /\ gret.is_support_incident = "True"
             /\ gret.confidence * 10 = One
             /\ gret.category = "general_inquiry"

\* the primary has no client, the secondary raised: the default is returned
C24_Witness ==
    /\ gpc = "done"
    /\ gprimary.kind = "none"
    /\ gsecondary.kind = "raise"
    /\ gcalls = <<primary_model, fallback_model>>
    /\ gret = default_classification

\* C25: every call of classify ends, and ends with an opinion, never with an
\* exception, whatever the providers and the gateway did; when the gateway
\* itself raised, the opinion is the keyword fallback's for the text.
C25_AlwaysResult ==
    /\ <>(gpc = "done")
    /\ [](gpc = "done"
            => /\ gresult # Raised
               /\ gresult.method \in {"ai", "keyword_fallback"}
               /\ gret = NoPayload
                     => gresult = fallback_classification(gtext))

\* the gateway raised and the keywords of the text decided
C25_Witness ==
    /\ gpc = "done"
    /\ gcalls = <<>>
    /\ gret = NoPayload
    /\ gresult.method = "keyword_fallback"
    /\ gresult.is_support_incident
    /\ gresult.trigger_words # {}

\* the payload has the fields the schema requires, with values it accepts
SchemaValid(ai) ==
    /\ ai.is_support_incident \in {"True", "False"}
    /\ ai.confidence \notin {Missing, Invalid}

\* C26: no opinion is built from a payload that violates the schema: such a
\* payload counts as a failed provider and a fallback decides.
C26_SchemaViolationIsFailure ==
    (gpc = "done" /\ gresult.method = "ai") => SchemaValid(gret)

\* C27: the keyword fallback says incident exactly when the text contains an
\* urgent or a problem keyword; its confidence is min(0.2 * n, 0.8) for an
\* incident and 0.3 otherwise, n being the number of trigger words it
\* reports.
C27_KeywordFallback ==
    (gpc = "done" /\ gresult.method = "keyword_fallback")
    => /\ gresult.is_support_incident
             <=> any_in(fallback_keywords.urgent \cup problem_keywords,
                        text_lower(gtext))
       /\ gresult.confidence * 10
             = IF gresult.is_support_incident
               THEN Min(2 * Cardinality(gresult.trigger_words) * One, 8 * One)
               ELSE 3 * One

\* five trigger words: the confidence is capped at 0.8
C27_Witness ==
    /\ gpc = "done"
    /\ gresult.method = "keyword_fallback"
    /\ gresult.is_support_incident
    /\ Cardinality(gresult.trigger_words) >= 5
    /\ gresult.confidence * 10 = 8 * One

C29_SkipsInvalidEntry ==
    [][ \A p \in Passes :
            ( /\ pc[p] = "pop"
              /\ queue # <<>>
              /\ rpop_item(queue) = Corrupt
              /\ queue' = rpop_rest(queue) )
            => (pc'[p] = "pop" /\ sched' # "backoff")
      ]_vars

\* the steps of the background scheduler
SchedulerSteps ==
    /\ (pc["background"] = "idle" /\ pc'["background"] # "idle")
       => (sched = "sleep" /\ sched' = "pass")
    /\ (pc["background"] = "except" /\ pc'["background"] = "idle"
           /\ sched' # "cancelled")
       => sched' = "backoff"
    /\ sched = "backoff" => sched' \in {"backoff", "sleep", "cancelled"}
    /\ (sched # "cancelled" /\ sched' = "cancelled") => Shutdown
    /\ sched = "cancelled" => pc'["background"] = "idle"

\* C30: the scheduler starts a pass again and again, each after
\* its sleep; a pass that raises is caught and followed by the back-off
\* sleep and then by another pass; only the cancellation at shutdown stops
\* the scheduler, and no pass starts after it.
C30_SchedulerRuns ==
    /\ [][SchedulerSteps]_vars
    /\ []<>(sched \in {"pass", "cancelled"})
    /\ (sched = "backoff") ~> (sched \in {"pass", "cancelled"})

\* the publish_message calls made on the ticket channel
TicketPublishes ==
    {i \in 1..Len(published) : published[i].channel = TicketChannel}

\* C31: once handle_whatsapp_message has handled a message, it has called
\* publish on the ticket channel exactly when the classification says
\* is_support_incident, whatever the confidence; before that and for a
\* non-incident nothing was published
C31_PublishIffIncident ==
    /\ gpc # "handled" => published = <<>>
    /\ gpc = "handled" =>
          /\ gresult.is_support_incident <=> TicketPublishes # {}
          /\ ~gresult.is_support_incident => published = <<>>

\* the conservative default (incident at 0.1) was forwarded
C31_Witness ==
    /\ gpc = "handled"
    /\ gret = default_classification
    /\ gresult.is_support_incident
    /\ gresult.confidence = One \div 10
    /\ TicketPublishes = {1}

\* the items waiting in pending_tickets
Waiting(q) == {q[k] : k \in 1..Len(q)}

\* how many pops of a pass it takes to reach the entry of item i: the pass
\* pops at the tail, so the tail has turn 1
Turn(q, i) == Len(q) + 1 - (CHOOSE k \in 1..Len(q) : q[k] = i)

\* C32: the pending list is first in, first out: a pass takes the item
\* whose turn is 1 and every other waiting item moves up by one; an item
\* that is enqueued, or pushed back after a failed attempt, gets the last
\* turn, behind every item that was waiting, whose turns it leaves alone;
\* and no waiting item is ever overtaken
C32_Fifo ==
    [][ \A i \in QueueItems :
          /\ (i \in Waiting(queue) /\ held'["background"] = i
                 /\ held["background"] # i)
               => /\ Turn(queue, i) = 1
                  /\ \A j \in Waiting(queue) \ {i} :
                        /\ j \in Waiting(queue')
                        /\ Turn(queue', j) = Turn(queue, j) - 1
          /\ (i \notin Waiting(queue) /\ i \in Waiting(queue'))
               => /\ Turn(queue', i) = Len(queue')
                  /\ \A j \in Waiting(queue) :
                        /\ j \in Waiting(queue')
                        /\ Turn(queue', j) = Turn(queue, j)
          /\ (i \in Waiting(queue) /\ i \in Waiting(queue'))
               => Turn(queue', i) <= Turn(queue, i)
      ]_vars

\* item 1 arrived first, failed once and now waits behind item 2
C32_Witness ==
    /\ queue = <<1, 2>>
    /\ attempts[1] = 1
    /\ attempts[2] = 0
    /\ status[1] = "retrying"
    /\ Turn(queue, 2) = 1

\* C33: for a reply to a system message the extraction returns the id of
\* the first form, in the order "Ticket #<id>", "Ticket <id>" (the word in
\* any capitalization) and bare "#<id>", that matches the quoted text with
\* an active id, and none when no form does
C33_CaseInsensitiveForms ==
    [][ \A t \in Tasks :
          (Checked(t) /\ tmsg'[t].quoted.participant = BotJid)
          => LET text == tmsg'[t].quoted.text
                 \* leftmost match of a form: the word, then a token of the kind
                 after(kind) ==
                     {k \in 2..Len(text) :
                        /\ text[k].kind = kind
                        /\ text[k - 1].kind = "word"
                        /\ text[k - 1].w \in TicketWords}
                 bare == {k \in 1..Len(text) : text[k].kind = "hashnum"}
                 id(hits) == IF hits = {} THEN None ELSE text[SetMin(hits)].n
                 forms == <<id(after("hashnum")), id(after("num")), id(bare)>>
                 active == {f \in 1..3 : is_ticket_active(store, forms[f])}
                 expected == IF active = {} THEN None
                             ELSE forms[SetMin(active)]
             IN extract_ticket_from_quoted(store, tmsg'[t]) = expected
      ]_vars

\* C34: a pass of process_queue that has started ends, whatever the backend
\* does on each call: every failed attempt is counted on the item and an
\* item is pushed back only while its count is below max_attempts, so the
\* loop runs out of items
C34_PassTerminates ==
    (pc["background"] # "idle") ~> (pc["background"] = "idle")

\* with the backend down an item went through all its attempts and the pass
\* returned
C34_Witness ==
    /\ ~backendUp
    /\ attempts[1] = MaxAttempts
    /\ status[1] = "failed"
    /\ queue = <<>>
    /\ pc["background"] = "idle"
    /\ sched = "sleep"

\* C35: attempts of a queue item stays within 0..max_attempts and is below
\* max_attempts while the item is in the pending list; the backend create
\* is only attempted for an item whose attempts is below max_attempts, and
\* the handler of every attempt that did not complete the item adds one
\* before the item can be tried again: so the create is attempted at most
\* max_attempts times for an item
C35_AttemptsBounded ==
    [][ \A i \in Items :
          /\ attempts[i] \in 0..MaxAttempts
          /\ attempts'[i] \in 0..MaxAttempts
          /\ (\E k \in 1..Len(queue') : queue'[k] = i)
                => attempts'[i] < MaxAttempts
          /\ \A p \in Passes :
                /\ (pc[p] = "create" /\ held[p] = i
                       /\ pc'[p] \in {"created", "except"})
                     => attempts[i] < MaxAttempts
                /\ (pc[p] = "except" /\ held[p] = i /\ pc'[p] = "pop")
                     => attempts'[i] = attempts[i] + 1
                /\ (pc[p] \in {"create", "created"} /\ held[p] = i)
                     => attempts'[i] = attempts[i]
      ]_vars

\* the last attempt an item is allowed is under way
C35_Witness ==
    /\ pc["background"] = "create"
    /\ held["background"] = 1
    /\ attempts[1] = MaxAttempts - 1
    /\ status[1] = "retrying"

\* the passes that hold item i between their pop and the end of its attempt
Holders(i) == {p \in Passes : held[p] = i}

\* entries of item i in the pending list
Entries(i) == {k \in 1..Len(queue) : queue[k] = i}

\* C36: with the background pass and a manual pass running at the same
\* time, an item is held by at most one pass at any moment, and an item that
\* is held is not in the pending list: the pop hands each entry to one pass
C36_OneHolder ==
    \A i \in {1, 2} :
        /\ Cardinality(Holders(i)) <= 1
        /\ Holders(i) # {} => Entries(i) = {}
        /\ Cardinality(Entries(i)) <= 1

\* both passes are running: one holds the item, the other is about to pop
\* from the list the first one emptied
C36_Witness ==
    /\ pc["background"] = "create"
    /\ held["background"] = 1
    /\ pc["manual"] = "pop"
    /\ held["manual"] = NoItem
    /\ queue = <<>>

\* the message ids in the thread of a stored incident
ThreadIds(inc) == {inc.thread[k] : k \in 1..Len(inc.thread)}

\* C37: when add_message_to_thread writes an unexpired incident back and
\* reports success, every message id that was in the incident's thread is
\* still there, next to the id just appended, however the calls of the
\* tasks interleave
C37_NoLostAppend ==
    [][ \A t \in Tasks :
          (tpc[t] = "append_store" /\ tpc'[t] = "done")
          => LET key == <<tloaded[t].group_id, tloaded[t].ticket_id>>
             IN store[key] # Absent
                => /\ ThreadIds(store[key]) \subseteq ThreadIds(store'[key])
                   /\ tmsg[t].id \in ThreadIds(store'[key])
      ]_vars

\* C38: a ticket id answered by check_existing_incident belongs to an
\* incident stored under the context key of the message that was checked
\* (its group, or its sender in an individual chat), whichever of the two
\* steps found it
C38_SameConversation ==
    [][ \A t \in Tasks :
          (Checked(t) /\ tticket'[t] # None)
          => store[<<ContextOf(tmsg'[t]), tticket'[t]>>] # Absent
      ]_vars

\* C39: a result of the keyword fallback that says incident carries at
\* least one trigger word, and its confidence is 0.2, 0.4, 0.6 or 0.8
C39_IncidentHasEvidence ==
    (gpc = "done" /\ gresult.method = "keyword_fallback"
        /\ gresult.is_support_incident)
    => /\ gresult.trigger_words # {}
       /\ gresult.confidence \in {k * TriggerWeight : k \in 1..4}

\* the part of a consensus the decision consists of
Decision(r) ==
    <<r.es_incidencia, r.confianza, r.tipo, r.requiere_revision>>

\* C40: the decision of VotingSystem.consensus is the one it gives for the
\* same two results passed in the opposite order: same es_incidencia,
\* confianza, tipo and requiere_revision
C40_OrderIndependent ==
    cimpl = "run_test"
    => \E r \in consensus(openai_result, claude_result) :
          Decision(r) = Decision(resultado_final)
====
